---- MODULE Spec2Model ----
(***************************************************************************)
(* Backend process supervisor of the Tauri shell                           *)
(* (gui/frontend/src-tauri/src/lib.rs).                                    *)
(*                                                                         *)
(* State: the managed BackendProcess(Mutex<Option<BackendChild>>), the     *)
(* operating-system children spawned so far, the host application's        *)
(* lifecycle, and one record per host-dispatched task (the automatic       *)
(* start spawned in setup, the UI command invocations, the RunEvent        *)
(* callback).  A task advances in steps that follow the statements of its  *)
(* handler; the mutex guard is taken by the first step of the guarded     *)
(* section and dropped by the step that returns from the function          *)
(* holding it.  A task waiting for the mutex is at pc "lock".              *)
(***************************************************************************)
EXTENDS Integers, Sequences, FiniteSets, TLC

VARIABLES backendProcess, mutexOwner, children, task, host

vars == <<backendProcess, mutexOwner, children, task, host>>

(***************************************************************************)
(* Bounds                                                                  *)
(***************************************************************************)
\* number of UI command invocations in one run of the application
MaxCmds == 2

(***************************************************************************)
(* Program constants                                                       *)
(***************************************************************************)
DEV_PORT == 8000
PROD_PORT == 58735

\* env!("DEV_WORKSPACE_ROOT"), set by build.rs
DEV_WORKSPACE_ROOT == "/ws"
\* BaseDirectory::AppLocalData resolved for the application
APP_LOCAL_DATA == "/appdata"

(***************************************************************************)
(* BackendChild and Option<BackendChild>                                   *)
(***************************************************************************)
\* None of Option<BackendChild>
NoHandle == [kind |-> "None", pid |-> 0]

\* BackendChild::Dev(child)
Dev(p) == [kind |-> "Dev", pid |-> p]

\* BackendChild::Sidecar(child)
Sidecar(p) == [kind |-> "Sidecar", pid |-> p]

\* BackendChild::pid
pid(h) == h.pid

\* state of the OS process with the given pid
ProcState(p) == IF p \in 1..Len(children) THEN children[p].state ELSE "none"

\* the BackendChild::try_wait results the build can produce for handle h:
\* Sidecar always answers Ok(None); Dev answers what waitpid(WNOHANG) says,
\* and waitpid can fail whatever the state of the child is
try_wait_PollsSidecar(h) ==
    IF ProcState(h.pid) = "alive" THEN {"running", "error"}
    ELSE {"exited", "error"}

try_wait(h) ==
    IF h.kind = "Sidecar" THEN {"running"}
    ELSE IF ProcState(h.pid) = "alive" THEN {"running", "error"}
    ELSE {"exited", "error"}

\* the BackendChild::kill results: Ok(()) or Err(e)
kill(h) == {"ok", "err"}

\* the Option left in the mutex by guard.take()
AfterTake_Keep(h) == h

AfterTake(h) == NoHandle

(***************************************************************************)
(* Launch commands                                                         *)
(***************************************************************************)
\* sidecar_cmd.args(["--production", "--port", PROD_PORT])
SidecarCommand ==
    [program |-> "sts-gui-backend",
     args |-> <<"--production", "--port", ToString(PROD_PORT)>>,
     cwd |-> "inherit"]

\* Command::new("uv").args(["run","sts-gui-server","--port",DEV_PORT]).current_dir(ws)
DevCommand_NoCwd(ws) ==
    [program |-> "uv",
     args |-> <<"run", "sts-gui-server", "--port", ToString(DEV_PORT)>>,
     cwd |-> "inherit"]

DevCommand(ws) ==
    [program |-> "uv",
     args |-> <<"run", "sts-gui-server", "--port", ToString(DEV_PORT)>>,
     cwd |-> ws]

\* get_workspace_dir: the results it can give for the mode
get_workspace_dir_Swapped(is_bundled) ==
    IF is_bundled THEN {[ok |-> TRUE, path |-> DEV_WORKSPACE_ROOT]}
    ELSE {[ok |-> TRUE, path |-> APP_LOCAL_DATA],
          [ok |-> FALSE, path |-> "Failed to get app data directory"]}

get_workspace_dir(is_bundled) ==
    IF is_bundled THEN {[ok |-> TRUE, path |-> APP_LOCAL_DATA],
                        [ok |-> FALSE, path |-> "Failed to get app data directory"]}
    ELSE {[ok |-> TRUE, path |-> DEV_WORKSPACE_ROOT]}

\* the command start_backend spawns, by the result of shell().sidecar(..)
LaunchCommand_AlwaysDev(sidecarOk, ws) == DevCommand(ws)

LaunchCommand(sidecarOk, ws) ==
    IF sidecarOk THEN SidecarCommand ELSE DevCommand(ws)

\* the handle start_backend stores for a spawned child
NewHandle_PrevPid(sidecarOk, p) == IF sidecarOk THEN Sidecar(p - 1) ELSE Dev(p - 1)

NewHandle_Phantom(sidecarOk, p) == IF sidecarOk THEN Sidecar(p + 1) ELSE Dev(p + 1)

NewHandle(sidecarOk, p) == IF sidecarOk THEN Sidecar(p) ELSE Dev(p)

\* the success status of start_backend
StartedStatus(sidecarOk) ==
    IF sidecarOk THEN "Backend started successfully (production)"
    ELSE "Backend started successfully (development)"

\* the results spawn() can give: Ok(child) (TRUE) or Err(e) (FALSE); the OS
\* refuses to execute a packaged executable without the execute bit
SpawnOutcomes(sidecarOk, execMode) ==
    IF sidecarOk /\ execMode = "0644" THEN {FALSE} ELSE {TRUE, FALSE}

\* the output readers start_backend starts for a spawned child: with
\* debug_assertions one thread per pipe of the uv child, or one task on the
\* event receiver of the sidecar; without, the pipes and the receiver are
\* dropped
SpawnReaders(debug, sidecarOk) ==
    IF ~debug THEN {}
    ELSE IF sidecarOk THEN {"events"} ELSE {"stdout", "stderr"}

\* start_backend continues after starting the readers of a child whose
\* running readers are rs: the threads and the task are detached
ReadersJoined(rs) == rs = {}

ReadersDetached(rs) == TRUE

\* the error of a failed spawn
SpawnError(sidecarOk) ==
    IF sidecarOk THEN "Failed to spawn sidecar" ELSE "Failed to start backend from"

(***************************************************************************)
(* Tasks                                                                   *)
(***************************************************************************)
\* the task spawned by setup() that runs start_backend
SetupTask == 0
\* the UI command invocations, numbered in the order the host dispatches them
CmdTasks == 1..MaxCmds
\* the RunEvent callback on the main thread
ExitTask == MaxCmds + 1

Tasks == {SetupTask} \cup CmdTasks \cup {ExitTask}

NoOwner == -1

NoResult == [ok |-> FALSE, msg |-> "pending"]
Ok(s) == [ok |-> TRUE, msg |-> s]
Err(s) == [ok |-> FALSE, msg |-> s]

\* a task that has not been invoked
IdleTask ==
    [op |-> "none", pc |-> "idle", child |-> NoHandle, prev |-> NoHandle,
     poll |-> "none",
     found |-> "none", killed |-> "none", attempts |-> << >>,
     result |-> NoResult]

\* a freshly invoked handler
NewTask(op, pc) == [IdleTask EXCEPT !.op = op, !.pc = pc]

\* Mutex::lock succeeds for task t
TryLock_NoExclusion(t) == TRUE

TryLock(t) == mutexOwner = NoOwner

\* the MutexGuard of task t goes out of scope when the handler returns
DropGuard_Leak(t) == t

DropGuard(t) == NoOwner

\* the pids of the children that are running
Alive == {p \in 1..Len(children) : children[p].state = "alive"}

(***************************************************************************)
(* Host lifecycle                                                          *)
(***************************************************************************)
ExitPaths == {"LastWindowDestroyed", "ProcessExiting"}

\* the RunEvents the runtime hands to the run() callback on an exit path
EventsFor(path) ==
    IF path = "LastWindowDestroyed"
    THEN <<"WindowEvent", "ExitRequested", "Exit">>
    ELSE <<"ExitRequested", "Exit">>

\* the match arm of the run() callback that calls shutdown_backend
HandlesExit_Requested(event) == event \in {"ExitRequested", "Exit"}

HandlesExit(event) == event = "Exit"

Init ==
    /\ backendProcess = NoHandle
    /\ mutexOwner = NoOwner
    /\ children = << >>
    /\ task = [t \in Tasks |->
                 IF t = SetupTask THEN NewTask("start", "lock") ELSE IdleTask]
    /\ \E b \in BOOLEAN :
         \E m \in (IF b THEN {"0755", "0644"} ELSE {"none"}) :
            host = [phase |-> "running", events |-> << >>,
                    sidecar |-> b, execMode |-> m, debug |-> FALSE,
                    exitShutdowns |-> 0]

(***************************************************************************)
(* Helpers on the task table                                               *)
(***************************************************************************)
\* the handler of task t returns r
Return(t, r) == [task EXCEPT ![t].pc = "done", ![t].result = r]

\* tasks run only while the host process exists
Running(t) == host.phase # "exited"

(***************************************************************************)
(* UI commands: the invoke handler dispatches start_backend / stop_backend *)
(***************************************************************************)
Invoke(t, op) ==
    /\ host.phase = "running"
    /\ task[t].pc = "idle"
    /\ \A u \in CmdTasks : u < t => task[u].pc # "idle"
    /\ task' = [task EXCEPT ![t] = NewTask(op, "lock")]
    /\ UNCHANGED <<backendProcess, mutexOwner, children, host>>

(***************************************************************************)
(* start_backend                                                           *)
(***************************************************************************)
\* let mut process = backend_state.0.lock().unwrap();
\* if let Some(ref mut child) = *process { match child.try_wait() { .. } }
StartCheck(t) ==
    /\ Running(t)
    /\ task[t].op = "start" /\ task[t].pc = "lock"
    /\ TryLock(t)
    /\ \/ /\ backendProcess = NoHandle
          /\ task' = [task EXCEPT ![t].pc = "launch", ![t].poll = "nohandle"]
          /\ mutexOwner' = t
       \/ /\ backendProcess # NoHandle
          /\ \E r \in try_wait(backendProcess) :
               LET seen == [task EXCEPT
                              ![t].prev = backendProcess,
                              ![t].poll = r,
                              ![t].found = IF ProcState(pid(backendProcess)) = "alive"
                                           THEN "alive" ELSE "dead"]
               IN  IF r = "running"
                   THEN /\ task' = [seen EXCEPT ![t].pc = "done",
                                                ![t].result = Ok("Backend already running")]
                        /\ mutexOwner' = DropGuard(t)
                   ELSE /\ task' = [seen EXCEPT ![t].pc = "launch"]
                        /\ mutexOwner' = t
    /\ UNCHANGED <<backendProcess, children, host>>

\* match app_handle.shell().sidecar(..) { Ok => sidecar spawn, Err => uv spawn }
StartLaunch(t) ==
    /\ Running(t)
    /\ task[t].op = "start" /\ task[t].pc = "launch"
    /\ \E w \in get_workspace_dir(host.sidecar) :
         \/ /\ ~w.ok
            /\ task' = Return(t, Err(w.path))
            /\ mutexOwner' = DropGuard(t)
            /\ UNCHANGED children
         \/ /\ w.ok
            /\ LET cmd == LaunchCommand(host.sidecar, w.path)
                   tried == [task EXCEPT ![t].attempts = Append(@, cmd)]
               IN  \/ /\ FALSE \in SpawnOutcomes(host.sidecar, host.execMode)
                      /\ task' = [tried EXCEPT ![t].pc = "done",
                                               ![t].result = Err(SpawnError(host.sidecar))]
                      /\ mutexOwner' = DropGuard(t)
                      /\ UNCHANGED children
                   \/ /\ TRUE \in SpawnOutcomes(host.sidecar, host.execMode)
                      /\ children' = Append(children,
                                          [state |-> "alive", cmd |-> cmd,
                                           readers |-> SpawnReaders(host.debug, host.sidecar)])
                      /\ task' = [tried EXCEPT
                                    ![t].pc = "store",
                                    ![t].child = NewHandle(host.sidecar, Len(children) + 1)]
                      /\ UNCHANGED mutexOwner
    /\ UNCHANGED <<backendProcess, host>>

\* *process = Some(BackendChild::..(child)); Ok("Backend started successfully (..)")
StartStore(t) ==
    /\ Running(t)
    /\ task[t].op = "start" /\ task[t].pc = "store"
    /\ ReadersDetached(children[pid(task[t].child)].readers)
    /\ backendProcess' = task[t].child
    /\ task' = Return(t, Ok(StartedStatus(host.sidecar)))
    /\ mutexOwner' = DropGuard(t)
    /\ UNCHANGED <<children, host>>

(***************************************************************************)
(* get_workspace_path                                                      *)
(***************************************************************************)
\* workspace_dir.to_str(): the build-time root is a Rust string; the
\* application data directory is an OS path that need not be valid text
to_str(dir) == IF dir = DEV_WORKSPACE_ROOT THEN {TRUE} ELSE {TRUE, FALSE}

\* the results get_workspace_path can return for the detected mode
get_workspace_path(is_bundled) ==
    UNION {IF ~w.ok THEN {Err(w.path)}
           ELSE {IF s THEN Ok(w.path)
                 ELSE Err("Failed to convert workspace path to string") :
                    s \in to_str(w.path)} :
              w \in get_workspace_dir(is_bundled)}

\* the invoke handler runs get_workspace_path: it takes no lock and
\* touches no managed state, so the call is one step
GetWorkspacePath(t) ==
    /\ host.phase = "running"
    /\ task[t].pc = "idle"
    /\ \A u \in CmdTasks : u < t => task[u].pc # "idle"
    /\ \E r \in get_workspace_path(host.sidecar) :
         task' = [task EXCEPT ![t] = [NewTask("workspace", "done") EXCEPT !.result = r]]
    /\ UNCHANGED <<backendProcess, mutexOwner, children, host>>

(***************************************************************************)
(* shutdown_backend, called by stop_backend and by the RunEvent callback   *)
(***************************************************************************)
\* let mut guard = state.0.lock().unwrap();
\* if let Some(child) = guard.take() { .. } else { debug!(..) }
ShutdownTake(t) ==
    /\ Running(t)
    /\ task[t].op \in {"stop", "exit"} /\ task[t].pc = "lock"
    /\ TryLock(t)
    /\ mutexOwner' = t
    /\ backendProcess' = AfterTake(backendProcess)
    /\ task' = [task EXCEPT ![t].child = backendProcess,
                            ![t].pc = IF backendProcess = NoHandle
                                      THEN "unlock" ELSE "kill"]
    /\ UNCHANGED <<children, host>>

\* if let Err(e) = child.kill() { warn!(..) } else { info!(..) }
ShutdownKill(t) ==
    /\ Running(t)
    /\ task[t].op \in {"stop", "exit"} /\ task[t].pc = "kill"
    /\ \E r \in kill(task[t].child) :
         /\ task' = [task EXCEPT ![t].killed = r, ![t].pc = "unlock"]
         /\ children' = IF r = "ok"
                        THEN [children EXCEPT ![pid(task[t].child)].state = "exited"]
                        ELSE children
    /\ UNCHANGED <<backendProcess, mutexOwner, host>>

\* the status stop_backend returns after shutdown_backend
StopStatus(took, killed) == Ok("Backend stopped successfully")

\* shutdown_backend returns (the guard is dropped) and its caller returns
ShutdownReturn(t) ==
    /\ Running(t)
    /\ task[t].op \in {"stop", "exit"} /\ task[t].pc = "unlock"
    /\ mutexOwner' = DropGuard(t)
    /\ task' = Return(t, IF task[t].op = "stop"
                         THEN StopStatus(task[t].child, task[t].killed)
                         ELSE Ok("handled"))
    /\ UNCHANGED <<backendProcess, children, host>>

(***************************************************************************)
(* Host lifecycle: run(|app_handle, event| ..)                             *)
(***************************************************************************)
\* the host starts to exit on one of its exit paths
HostExit(path) ==
    /\ host.phase = "running"
    /\ host' = [host EXCEPT !.phase = "exiting", !.events = EventsFor(path)]
    /\ UNCHANGED <<backendProcess, mutexOwner, children, task>>

\* the runtime hands the next RunEvent to the callback
RunCallback ==
    /\ host.phase = "exiting"
    /\ host.events # << >>
    /\ task[ExitTask].pc \in {"idle", "done"}
    /\ \/ /\ HandlesExit(Head(host.events))
          /\ task' = [task EXCEPT ![ExitTask] = NewTask("exit", "lock")]
          /\ host' = [host EXCEPT !.events = Tail(@), !.exitShutdowns = @ + 1]
       \/ /\ ~HandlesExit(Head(host.events))
          /\ host' = [host EXCEPT !.events = Tail(@)]
          /\ UNCHANGED task
    /\ UNCHANGED <<backendProcess, mutexOwner, children>>

\* run() returns after the last event: the host process is gone
HostTerminate ==
    /\ host.phase = "exiting"
    /\ host.events = << >>
    /\ task[ExitTask].pc \in {"idle", "done"}
    /\ host' = [host EXCEPT !.phase = "exited"]
    /\ UNCHANGED <<backendProcess, mutexOwner, children, task>>

(***************************************************************************)
(* Environment: a child exits by itself                                    *)
(***************************************************************************)
ChildExits(p) ==
    /\ p \in Alive
    /\ children' = [children EXCEPT ![p].state = "exited"]
    /\ UNCHANGED <<backendProcess, mutexOwner, task, host>>

Next ==
    \/ \E t \in CmdTasks, op \in {"start", "stop"} : Invoke(t, op)
    \/ \E t \in Tasks : StartCheck(t)
    \/ \E t \in Tasks : StartLaunch(t)
    \/ \E t \in Tasks : StartStore(t)
    \/ \E t \in CmdTasks : GetWorkspacePath(t)
    \/ \E t \in Tasks : ShutdownTake(t)
    \/ \E t \in Tasks : ShutdownKill(t)
    \/ \E t \in Tasks : ShutdownReturn(t)
    \/ \E path \in ExitPaths : HostExit(path)
    \/ RunCallback
    \/ HostTerminate
    \/ \E p \in 1..Len(children) : ChildExits(p)

Spec == Init /\ [][Next]_vars

(***************************************************************************)
(* Builds with debug_assertions: the output of the child is drained by     *)
(* background readers                                                      *)
(***************************************************************************)
\* the readers of a child see the end of their streams after the child
\* exited, and end
ReaderEof(p) ==
    /\ children[p].state = "exited"
    /\ children[p].readers # {}
    /\ children' = [children EXCEPT ![p].readers = {}]
    /\ UNCHANGED <<backendProcess, mutexOwner, task, host>>

InitDebug ==
    /\ backendProcess = NoHandle
    /\ mutexOwner = NoOwner
    /\ children = << >>
    /\ task = [t \in Tasks |->
                 IF t = SetupTask THEN NewTask("start", "lock") ELSE IdleTask]
    /\ \E b \in BOOLEAN :
         \E m \in (IF b THEN {"0755", "0644"} ELSE {"none"}) :
            host = [phase |-> "running", events |-> << >>,
                    sidecar |-> b, execMode |-> m, debug |-> TRUE,
                    exitShutdowns |-> 0]

NextDebug ==
    \/ Next
    \/ \E p \in 1..Len(children) : ReaderEof(p)

DebugSpec == InitDebug /\ [][NextDebug]_vars

(***************************************************************************)
(* Types                                                                   *)
(***************************************************************************)
TypeOK ==
    /\ backendProcess.kind \in {"None", "Dev", "Sidecar"}
    /\ mutexOwner \in Tasks \cup {NoOwner}
    /\ Len(children) <= MaxCmds + 1
    /\ \A t \in Tasks : task[t].op \in {"none", "start", "stop", "exit", "workspace"}
    /\ host.phase \in {"running", "exiting", "exited"}

(***************************************************************************)
(* Vocabulary of the properties                                            *)
(***************************************************************************)
StartTasks == {t \in Tasks : task[t].op = "start"}
StopTasks == {t \in Tasks : task[t].op = "stop"}

\* t is inside the section of start_backend from the liveness check to the store
InStartSection(t) == task[t].op = "start" /\ task[t].pc \in {"launch", "store"}

\* stop_backend of task t has returned
StopReturned(t) == task[t].op = "stop" /\ task[t].pc = "done"

\* the arguments of command c contain the word w
HasArg(c, w) == \E i \in 1..Len(c.args) : c.args[i] = w

(***************************************************************************)
(* C1: a start() that finds a stored handle whose child is still running   *)
(* (the second of two start() calls with no stop() between them) returns   *)
(* "Backend already running", spawns nothing, and exactly one child is     *)
(* alive when it returns.                                                  *)
(***************************************************************************)
C1_SecondStartIsNoOp ==
    \A t \in StartTasks :
        task[t].found = "alive" =>
            /\ task[t].pc \notin {"launch", "store"}
            /\ task[t].pc = "done" =>
                 /\ task[t].result = Ok("Backend already running")
                 /\ task[t].attempts = << >>
                 /\ Cardinality(Alive) <= 1

C3_SingleInstance == Cardinality(Alive) <= 1

(***************************************************************************)
(* C4: when the host application has exited, no handle is stored and no    *)
(* child launched by the supervisor is alive.                              *)
(***************************************************************************)
C4_NoChildOutlivesHost ==
    host.phase = "exited" => backendProcess = NoHandle /\ Alive = {}

(***************************************************************************)
(* C5: on every exit path the RunEvent callback calls shutdown_backend     *)
(* exactly once, and at the point where the handler returns no child is    *)
(* tracked.                                                                *)
(***************************************************************************)
C5_ExitShutdownOnce ==
    /\ task[ExitTask].pc = "unlock" =>
         backendProcess = NoHandle /\ host.exitShutdowns = 1
    /\ host.phase = "exited" =>
         host.exitShutdowns = 1 /\ task[ExitTask].pc = "done"

C5_Witness ==
    /\ task[ExitTask].pc = "unlock"
    /\ task[ExitTask].child # NoHandle

(***************************************************************************)
(* C6: whenever stop() has returned success after taking a tracked child,  *)
(* that child is no longer running.                                        *)
(***************************************************************************)
C6_StoppedChildNotRunning ==
    \A t \in Tasks :
        (StopReturned(t) /\ task[t].result.ok /\ task[t].child # NoHandle) =>
            ProcState(pid(task[t].child)) # "alive"

(***************************************************************************)
(* C7: stop() with no child tracked returns success with a status that     *)
(* differs from the status of a stop() that stopped a child.               *)
(***************************************************************************)
C7_NotRunningStatus ==
    \A t \in Tasks :
        (StopReturned(t) /\ task[t].child = NoHandle) =>
            /\ task[t].result.ok
            /\ \A u \in Tasks :
                 (StopReturned(u) /\ task[u].child # NoHandle) =>
                     task[u].result.msg # task[t].result.msg

(***************************************************************************)
(* C8: at the point where stop() returns, the stored handle is None,       *)
(* whether kill succeeded or failed and for Dev and Sidecar handles.       *)
(***************************************************************************)
C8_StopClearsHandle ==
    \A t \in Tasks :
        (task[t].op = "stop" /\ task[t].pc \in {"kill", "unlock"}) =>
            backendProcess = NoHandle

C8_Witness ==
    \E t \in StopTasks :
        /\ task[t].pc = "unlock"
        /\ task[t].killed = "err"
        /\ task[t].child.kind = "Sidecar"

(***************************************************************************)
(* C9: a stop() that took a handle whose kill failed returns a failure.    *)
(***************************************************************************)
C9_StopSurfacesKillError ==
    \A t \in Tasks :
        (StopReturned(t) /\ task[t].child # NoHandle /\ task[t].killed = "err") =>
            ~task[t].result.ok

(***************************************************************************)
(* C10: mode correctness: a start() attempts at most one spawn; with the   *)
(* sidecar resolvable it is the packaged executable with --production,     *)
(* and a failed spawn is not followed by the development command; with     *)
(* the sidecar not resolvable it is the development command.               *)
(***************************************************************************)
C10_ModeCorrectness ==
    \A t \in StartTasks :
        /\ Len(task[t].attempts) <= 1
        /\ \A i \in 1..Len(task[t].attempts) :
             LET c == task[t].attempts[i]
             IN  IF host.sidecar
                 THEN c.program = "sts-gui-backend" /\ HasArg(c, "--production")
                 ELSE c.program = "uv" /\ ~HasArg(c, "--production")

C10_Witness ==
    \E t \in StartTasks :
        /\ host.sidecar
        /\ task[t].pc = "done"
        /\ ~task[t].result.ok
        /\ Len(task[t].attempts) = 1

(***************************************************************************)
(* C11: the launch parameters and the success status of start() follow     *)
(* the detected mode: in development the child is the uv command run in    *)
(* the workspace root with --port 8000 and the status is "Backend started  *)
(* successfully (development)"; in production the child is the packaged    *)
(* executable with the arguments --production --port 58735 and the status  *)
(* is "Backend started successfully (production)".                         *)
(***************************************************************************)
\* start_backend of task t has spawned a child
Spawned(t) ==
    task[t].op = "start" /\ task[t].pc \in {"store", "done"} /\ task[t].child # NoHandle

C11_LaunchByMode ==
    \A t \in Tasks :
        Spawned(t) =>
            LET c == children[pid(task[t].child)].cmd
            IN  IF host.sidecar
                THEN /\ c.program = "sts-gui-backend"
                     /\ c.args = <<"--production", "--port", "58735">>
                     /\ task[t].pc = "done" =>
                          task[t].result = Ok("Backend started successfully (production)")
                ELSE /\ c.program = "uv"
                     /\ c.cwd = DEV_WORKSPACE_ROOT
                     /\ c.args = <<"run", "sts-gui-server", "--port", "8000">>
                     /\ task[t].pc = "done" =>
                          task[t].result = Ok("Backend started successfully (development)")

C11_Witness ==
    \E t \in Tasks :
        /\ Spawned(t) /\ task[t].pc = "done"
        /\ ~host.sidecar
        /\ children[pid(task[t].child)].cmd.cwd = "/ws"

(***************************************************************************)
(* C12: get_workspace_path leaves the stored handle, the mutex and the     *)
(* children as they are, in the Empty and in the Running state and for     *)
(* both outcomes, and what it returns is determined by the detected mode:  *)
(* the build-time workspace root in development; the application data      *)
(* directory or an error in production.                                    *)
(***************************************************************************)
C12_WorkspacePathFrame ==
    [][\A t \in CmdTasks :
         (task[t].pc = "idle" /\ task'[t].op = "workspace") =>
             /\ backendProcess' = backendProcess
             /\ mutexOwner' = mutexOwner
             /\ children' = children
             /\ task'[t].pc = "done"
             /\ IF host.sidecar
                THEN task'[t].result \in
                       {Ok("/appdata"),
                        Err("Failed to get app data directory"),
                        Err("Failed to convert workspace path to string")}
                ELSE task'[t].result = Ok("/ws")]_vars

C12_Witness ==
    \E t \in CmdTasks :
        /\ task[t].op = "workspace" /\ task[t].pc = "done"
        /\ task[t].result.ok
        /\ backendProcess # NoHandle
        /\ ProcState(pid(backendProcess)) = "alive"

(***************************************************************************)
(* C13: single ownership: the step of start() that stores the handle and   *)
(* returns success leaves a handle whose pid is the pid of the child this  *)
(* start() spawned, which is the most recently spawned child, with the     *)
(* variant of the path taken (Dev for uv, Sidecar for the packaged         *)
(* executable).                                                            *)
(***************************************************************************)
C13_StoredPidIsSpawnedPid ==
    [][\A t \in Tasks :
         (task[t].op = "start" /\ task[t].pc = "store" /\ task'[t].pc = "done") =>
             /\ task'[t].result.ok
             /\ pid(backendProcess') = Len(children')
             /\ children'[pid(backendProcess')].cmd = task[t].attempts[Len(task[t].attempts)]
             /\ backendProcess'.kind =
                  IF children'[pid(backendProcess')].cmd.program = "uv"
                  THEN "Dev" ELSE "Sidecar"]_vars

C13_Witness ==
    \E t \in Tasks :
        /\ Spawned(t) /\ task[t].pc = "done"
        /\ host.sidecar
        /\ backendProcess = Sidecar(Len(children))
        /\ Len(children) = 2

(***************************************************************************)
(* C14: in the production path a packaged executable without the execute   *)
(* bit is given mode 0755 before it is spawned, so no spawn of it is       *)
(* attempted while it lacks the bit; a start() that reaches the launch     *)
(* with the bit still missing fails with a PermissionError.                *)
(***************************************************************************)
C14_ExecutableBitSetBeforeSpawn ==
    \A t \in StartTasks :
        (host.sidecar /\ host.execMode = "0644") =>
            /\ task[t].attempts = << >>
            /\ (task[t].pc = "done" /\ task[t].poll # "running"
                  /\ task[t].result # Err("Failed to get app data directory")) =>
                 task[t].result = Err("PermissionError")

(***************************************************************************)
(* C15: a start() that found a stored Dev handle whose child is confirmed  *)
(* exited has discarded it: once that start() has returned, with success   *)
(* or with an error, the stored handle is not the handle it found.         *)
(***************************************************************************)
C15_StaleHandleDiscarded ==
    \A t \in StartTasks :
        (task[t].pc = "done" /\ task[t].poll = "exited") =>
            backendProcess # task[t].prev

(***************************************************************************)
(* C16: while a Sidecar handle is stored, every start() that takes the     *)
(* mutex returns "Backend already running" and spawns nothing, whether or  *)
(* not the child is still alive, and the stored handle changes only by     *)
(* shutdown_backend (stop() or the exit hook) taking it.                   *)
(***************************************************************************)
C16_SidecarAssumedAlive ==
    [][backendProcess.kind = "Sidecar" =>
         /\ \/ backendProcess' = backendProcess
            \/ /\ backendProcess' = NoHandle
               /\ \E t \in Tasks :
                    /\ task[t].op \in {"stop", "exit"}
                    /\ task[t].pc = "lock"
                    /\ task'[t].child = backendProcess
         /\ \A t \in Tasks :
              (task[t].op = "start" /\ task[t].pc = "lock" /\ task'[t].pc # "lock") =>
                  /\ task'[t].pc = "done"
                  /\ task'[t].result = Ok("Backend already running")
                  /\ children' = children]_vars

C16_Witness ==
    \E t \in StartTasks :
        /\ task[t].pc = "done"
        /\ task[t].prev.kind = "Sidecar"
        /\ task[t].found = "dead"
        /\ task[t].result = Ok("Backend already running")
        /\ backendProcess = task[t].prev

(***************************************************************************)
(* C17: start() and stop() exclude each other and the last holder of the   *)
(* mutex decides: whenever no operation holds the mutex, every live child  *)
(* is the tracked one (in runs where no liveness poll failed), a stop()    *)
(* that took a handle has left its child killed, and no handle is tracked  *)
(* for a child that was killed.                                            *)
(***************************************************************************)
C17_LastLockHolderWins ==
    mutexOwner = NoOwner =>
        /\ (\A t \in Tasks : task[t].poll # "error") =>
             Alive \subseteq {pid(backendProcess)}
        /\ \A t \in Tasks :
             (task[t].op = "stop" /\ task[t].pc = "done" /\ task[t].child # NoHandle) =>
                 /\ ProcState(pid(task[t].child)) # "alive"
                 /\ backendProcess # task[t].child

(***************************************************************************)
(* C18: the step in which start() returns an error (workspace resolution   *)
(* failure or spawn failure) leaves the stored handle and the children as  *)
(* they were, so an Empty state stays Empty; and a stored handle is        *)
(* always the handle of a child that was spawned, of the matching kind.    *)
(***************************************************************************)
C18_FailedStartStoresNothing ==
    [][/\ \A t \in Tasks :
            (task[t].op = "start" /\ task[t].pc # "done"
               /\ task'[t].pc = "done" /\ ~task'[t].result.ok) =>
                /\ backendProcess' = backendProcess
                /\ children' = children
       /\ backendProcess' # NoHandle =>
            /\ pid(backendProcess') \in 1..Len(children')
            /\ backendProcess'.kind =
                 IF children'[pid(backendProcess')].cmd.program = "uv"
                 THEN "Dev" ELSE "Sidecar"]_vars

C18_Witness ==
    \E t \in StartTasks :
        /\ task[t].pc = "done"
        /\ task[t].poll = "nohandle"
        /\ task[t].result = Err("Failed to start backend from")
        /\ backendProcess = NoHandle
        /\ children = << >>

(***************************************************************************)
(* C19: the output readers never hold the mutex and never touch the        *)
(* stored handle: a step of a reader leaves the handle, the mutex and the  *)
(* handlers as they are, the mutex is only ever owned by a handler inside  *)
(* its guarded section, and while a reader is blocked on the output of a   *)
(* live child every handler can still go on: the holder of the mutex can   *)
(* take its next step, and with the mutex free every waiting start(),      *)
(* stop() and exit hook can take it.                                       *)
(***************************************************************************)
\* a reader is blocked waiting for output of a child that is running
ReaderBlocked == \E p \in Alive : children[p].readers # {}

\* the next step of handler t
Step(t) ==
    \/ StartCheck(t)
    \/ StartLaunch(t)
    \/ StartStore(t)
    \/ ShutdownTake(t)
    \/ ShutdownKill(t)
    \/ ShutdownReturn(t)

C19_ReadersOffTheLock ==
    /\ [](/\ mutexOwner # NoOwner =>
               task[mutexOwner].pc \in {"launch", "store", "kill", "unlock"}
          /\ (ReaderBlocked /\ host.phase # "exited") =>
               \A t \in Tasks :
                   /\ task[t].pc \in {"launch", "store", "kill", "unlock"} =>
                        ENABLED Step(t)
                   /\ (task[t].pc = "lock" /\ mutexOwner = NoOwner) =>
                        ENABLED Step(t))
    /\ [][(\E p \in 1..Len(children) : children'[p].readers # children[p].readers) =>
             /\ backendProcess' = backendProcess
             /\ mutexOwner' = mutexOwner
             /\ task' = task]_vars

C19_Witness ==
    /\ ReaderBlocked
    /\ \E t, u \in Tasks :
         /\ task[t].op = "stop" /\ task[t].pc = "unlock" /\ task[t].killed = "err"
         /\ task[u].op = "start" /\ task[u].pc = "lock"

(***************************************************************************)
(* Fair scheduling: a handler whose next step stays possible takes it.     *)
(***************************************************************************)
FairSpec == Spec /\ \A t \in Tasks : WF_vars(Step(t))

\* a handler that has returned, or has not locked yet, holds no guard
GuardReleased == \A t \in Tasks :
    task[t].pc \in {"idle", "lock", "done"} => mutexOwner # t

\* C20 as stated: every invoked start(), stop() and exit hook eventually
\* acquires the lock and returns.
C20_EveryInvocationReturns ==
    \A t \in Tasks : (task[t].pc = "lock") ~> (task[t].pc = "done")

(***************************************************************************)
(* C20 (amended): every return path of start(), stop() and the exit hook   *)
(* releases the mutex, so under fair scheduling every invoked operation    *)
(* eventually acquires the lock and returns, unless the host process ends  *)
(* first: a command still waiting for the lock when run() returns is never *)
(* completed.                                                              *)
(***************************************************************************)
C20_DeadlockFreedom ==
    /\ []GuardReleased
    /\ \A t \in Tasks :
         (task[t].pc = "lock") ~> (task[t].pc = "done" \/ host.phase = "exited")

C20_Witness ==
    /\ mutexOwner = NoOwner
    /\ \E t, u \in Tasks :
         /\ task[t].op = "stop" /\ task[t].pc = "done" /\ task[t].killed = "err"
         /\ task[u].op = "start" /\ task[u].pc = "done" /\ task[u].result.ok = FALSE

====
